---- MODULE Spec2Model ----
(***************************************************************************)
(* Vegas Pay dashboard (src/vegas_pay_dashboard_app.py).                   *)
(*                                                                         *)
(* One Streamlit session: the four session slots, the page, and what one   *)
(* run of the dashboard page computes from the slots (joined card rows,    *)
(* PIX rows, monthly summaries, new-merchant table, overall percentage).   *)
(*                                                                         *)
(* Conventions of the model                                                *)
(*   - a text is a sequence of one-character strings;                      *)
(*   - a spreadsheet cell is a tagged record: TextCell, NumCell, DateCell  *)
(*     or NaN (an empty cell, which pandas reads as NaN);                  *)
(*   - a number is an exact rational [n, d] in lowest terms (the program   *)
(*     computes in binary floating point; rounding error is not modelled); *)
(*   - a table is a sequence of rows (records of cells).                   *)
(***************************************************************************)
EXTENDS Integers, Sequences, FiniteSets, TLC

VARIABLES
    page,        \* the sidebar radio: "Upload" or "Dashboard"
    data,        \* st.session_state.data: the four slots
    uploaded,    \* what the four file_uploaders held at the last "Carregar dados"
    run,         \* what the last script run did: "upload", "loaded", "stopped", "dashboard"
    mes_sel,     \* the "Mês" multiselect of the last dashboard run
    meio_sel,    \* the "Meio" multiselect of the last dashboard run
    merged,      \* joined and calculated card rows (empty unless run = "dashboard")
    filt_cart,   \* merged after the filters
    resumo_cart, \* monthly summary of filt_cart
    filt_pix,    \* calculated PIX rows after the filters, or None
    com,         \* new-merchant table, or None
    mdr_liq_pct, \* overall net-margin percentage
    sheets,      \* sheet names written to the export workbook
    raw,         \* input cell of the key normalizers (SpecNorm)
    bkey,        \* norm_bandeira(raw)
    bkey2,       \* norm_bandeira(bkey)
    pkey         \* norm_prod(raw)

sessionVars == <<page, data, uploaded>>
dashVars == <<run, mes_sel, meio_sel, merged, filt_cart, resumo_cart, filt_pix, com, mdr_liq_pct, sheets>>
normVars == <<raw, bkey, bkey2, pkey>>
vars == <<page, data, uploaded, run, mes_sel, meio_sel, merged, filt_cart, resumo_cart, filt_pix, com, mdr_liq_pct, sheets, raw, bkey, bkey2, pkey>>

\* Python's None, and a loaded table (a DataFrame): its rows in order
None == [t |-> "None"]
DF(rows) == [t |-> "df", rows |-> rows]

\* what a file_uploader holds: nothing, a file pd.read_excel fails on, or a
\* file that reads as a table
NoFile == [t |-> "nofile"]
Unreadable == [t |-> "unreadable"]

\* the uploads a session with the slots d was loaded from, none unreadable
LoadedFrom(d) == [k \in DOMAIN d |-> IF d[k] = None THEN NoFile ELSE d[k]]

(***************************************************************************)
(* Cells                                                                   *)
(***************************************************************************)
NaN == [t |-> "nan"]
TextCell(s) == [t |-> "text", s |-> s]
NumCell(v) == [t |-> "num", v |-> v]
DateCell(y, m, d) == [t |-> "date", y |-> y, m |-> m, d |-> d]

isna(x) == x.t = "nan"

(***************************************************************************)
(* Texts                                                                   *)
(***************************************************************************)
LowerCase == <<"a","b","c","d","e","f","g","h","i","j","k","l","m","n","o","p","q","r","s","t","u","v","w","x","y","z">>
UpperCase == <<"A","B","C","D","E","F","G","H","I","J","K","L","M","N","O","P","Q","R","S","T","U","V","W","X","Y","Z">>
Whitespace == {" ", "\t"}

UpperChar(c) ==
    IF \E i \in 1..26 : LowerCase[i] = c
    THEN UpperCase[CHOOSE i \in 1..26 : LowerCase[i] = c]
    ELSE c

\* str.upper()
upper(s) == [i \in 1..Len(s) |-> UpperChar(s[i])]

RECURSIVE lstrip(_)
lstrip(s) == IF s # <<>> /\ Head(s) \in Whitespace THEN lstrip(Tail(s)) ELSE s

RECURSIVE rstrip(_)
rstrip(s) ==
    IF s # <<>> /\ s[Len(s)] \in Whitespace THEN rstrip(SubSeq(s, 1, Len(s) - 1)) ELSE s

\* str.strip()
strip(s) == rstrip(lstrip(s))

\* str.startswith(p)
startswith(s, p) == Len(s) >= Len(p) /\ SubSeq(s, 1, Len(p)) = p

\* str.replace(old, new): leftmost non-overlapping occurrences, old non-empty
RECURSIVE replace(_, _, _)
replace(s, old, new) ==
    IF Len(s) < Len(old) THEN s
    ELSE IF startswith(s, old)
         THEN new \o replace(SubSeq(s, Len(old) + 1, Len(s)), old, new)
         ELSE <<Head(s)>> \o replace(Tail(s), old, new)

\* str(x) of a cell, as Series.astype(str) and str() give it
\* (text and empty cells; the text columns of the model hold no other cell)
str(x) ==
    CASE x.t = "text" -> x.s
      [] x.t = "nan" -> <<"n","a","n">>

T_MASTERCARD == <<"M","A","S","T","E","R","C","A","R","D">>
T_MASTER == <<"M","A","S","T","E","R">>
T_MAESTRO == <<"M","A","E","S","T","R","O">>
T_VISA_ELECTRON == <<"V","I","S","A"," ","E","L","E","C","T","R","O","N">>
T_VISA == <<"V","I","S","A">>
T_DEBITO == <<"D","E","B","I","T","O">>
T_CREDITO == <<"C","R","E","D","I","T","O">>
T_D == <<"D">>

(***************************************************************************)
(* Key Normalizer                                                          *)
(***************************************************************************)
norm_bandeira(x) ==
    IF isna(x) THEN <<>>
    ELSE replace(replace(replace(upper(strip(str(x))),
                                 T_MASTERCARD, T_MASTER),
                         T_MAESTRO, T_MASTER),
                 T_VISA_ELECTRON, T_VISA)

norm_prod(x) ==
    IF isna(x) THEN <<>>
    ELSE IF startswith(upper(strip(str(x))), T_D) THEN T_DEBITO ELSE T_CREDITO

(***************************************************************************)
(* Inputs of the key normalizers: NaN and every text made of at most       *)
(* MaxChunks chunks.                                                       *)
(***************************************************************************)
MaxChunks == 2

Chunks ==
    { T_MASTERCARD, T_MAESTRO, T_VISA_ELECTRON, T_VISA,
      <<"C","A","R","D">>, <<" ">>, <<"E","L","O">>,
      <<"m","a","s","t","e","r">>, <<" ","E","L","E","C","T","R","O","N">>,
      <<"d","e","b","i","t","o">>, <<"D">>, <<"C","r","e","d","i","t","o">> }

RECURSIVE Texts(_)
Texts(k) ==
    IF k = 0 THEN { <<>> }
    ELSE Texts(k - 1) \cup { s \o c : s \in Texts(k - 1), c \in Chunks }

RawCells == {NaN} \cup { TextCell(s) : s \in Texts(MaxChunks) }

Pending == [t |-> "pending"]

(***************************************************************************)
(* Numbers: exact rationals, plus the non-finite results of a float        *)
(* division by zero (d = 0: n = 0 is NaN, n = 1 is +inf, n = -1 is -inf).  *)
(***************************************************************************)
Abs(i) == IF i < 0 THEN -i ELSE i
Sign(i) == IF i < 0 THEN -1 ELSE IF i = 0 THEN 0 ELSE 1

RECURSIVE GCD(_, _)
GCD(a, b) == IF b = 0 THEN a ELSE GCD(b, a % b)

\* n/d in lowest terms, d # 0
Rat(n, d) ==
    LET g == GCD(Abs(n), Abs(d))
    IN  [n |-> Sign(d) * (n \div g), d |-> Abs(d) \div g]

R(i) == [n |-> i, d |-> 1]
IsFinite(a) == a.d # 0
NonFinite(sign) == [n |-> sign, d |-> 0]

RAdd(a, b) == Rat(a.n * b.d + b.n * a.d, a.d * b.d)
RSub(a, b) == Rat(a.n * b.d - b.n * a.d, a.d * b.d)
RMul(a, b) ==
    IF IsFinite(a) /\ IsFinite(b) THEN Rat(a.n * b.n, a.d * b.d)
    ELSE NonFinite(Sign(a.n) * Sign(b.n))
\* float division: x/0 is nan or +-inf, never an exception, on numpy values
RDiv(a, b) ==
    IF b.n = 0 THEN NonFinite(Sign(a.n)) ELSE Rat(a.n * b.d, a.d * b.n)
RGt(a, b) == a.n * b.d > b.n * a.d
RLe(a, b) == ~RGt(a, b)

RECURSIVE RSum(_)
RSum(s) == IF s = <<>> THEN R(0) ELSE RAdd(Head(s), RSum(Tail(s)))

RECURSIVE Insert(_, _)
Insert(v, s) ==
    IF s = <<>> THEN <<v>>
    ELSE IF RLe(v, Head(s)) THEN <<v>> \o s
    ELSE <<Head(s)>> \o Insert(v, Tail(s))

RECURSIVE Sorted(_)
Sorted(s) == IF s = <<>> THEN <<>> ELSE Insert(Head(s), Sorted(Tail(s)))

\* Series.median() of a non-empty column without NaN
median(s) ==
    LET o == Sorted(s)
        n == Len(o)
    IN  IF n % 2 = 1 THEN o[(n + 1) \div 2]
        ELSE RDiv(RAdd(o[n \div 2], o[n \div 2 + 1]), R(2))

\* pd.to_numeric(errors="coerce") of a cell that holds a number, a non-numeric
\* text or nothing
to_numeric(x) == IF x.t = "num" THEN x ELSE NaN
\* Series.fillna(v) followed by reading the number
fillna(x, v) == IF isna(x) THEN v ELSE x.v

\* np.where(cond, a, b), one element
np_where(cond, a, b) == IF cond THEN a ELSE b

Column(tbl, f(_)) == [i \in 1..Len(tbl) |-> f(tbl[i])]

(***************************************************************************)
(* Month key                                                               *)
(***************************************************************************)
Digit(i) == <<"0","1","2","3","4","5","6","7","8","9">>[i + 1]
T_NaT == <<"N","a","T">>

\* pd.to_datetime(errors="coerce").dt.to_period("M").astype(str) of a cell that
\* holds a date, a text that is no date, or nothing
ensure_period_str(x) ==
    IF x.t = "date"
    THEN << Digit(x.y \div 1000), Digit((x.y \div 100) % 10), Digit((x.y \div 10) % 10),
            Digit(x.y % 10), "-", Digit(x.m \div 10), Digit(x.m % 10) >>
    ELSE T_NaT

(***************************************************************************)
(* Preparação - Cartões: keys, cost lookup, join, derived columns          *)
(*                                                                         *)
(* A vendas row has the cells MCC, Bandeira, Produto, Valor,               *)
(* Data_Transacao, MDR, Tarifa_Antecipacao, CNPJ_Estabelecimento; a custos *)
(* row has MCC, BANDEIRA, PRODUTO, Taxa, Taxa_Antecipacao, Imposto.        *)
(***************************************************************************)
\* df["MCC"].astype(str).str.strip()
mcc_key(x) == strip(str(x))

\* vendas with MCC as text and the two key columns
vendas_keys(v) ==
    [MCC |-> mcc_key(v.MCC),
     BANDEIRA_KEY |-> norm_bandeira(v.Bandeira),
     PRODUTO_KEY |-> norm_prod(v.Produto)] @@ v

\* custos with MCC as text and the two key columns, projected on cols_needed
custos_keys(c) ==
    [MCC |-> mcc_key(c.MCC),
     BANDEIRA_KEY |-> strip(upper(str(c.BANDEIRA))),
     PRODUTO_KEY |-> strip(upper(str(c.PRODUTO))),
     Taxa |-> c.Taxa,
     Taxa_Antecipacao |-> c.Taxa_Antecipacao,
     Imposto |-> c.Imposto]

\* DataFrame.drop_duplicates(): the first of each group of rows that are equal
\* in every column
RECURSIVE drop_duplicates(_)
drop_duplicates(s) ==
    IF s = <<>> THEN <<>>
    ELSE LET n == Len(s)
             init == drop_duplicates(SubSeq(s, 1, n - 1))
         IN  IF \E j \in 1..(n - 1) : s[j] = s[n] THEN init ELSE Append(init, s[n])

custos_slim(custos) == drop_duplicates(Column(custos, custos_keys))

SameKey(v, c) ==
    /\ v.MCC = c.MCC
    /\ v.BANDEIRA_KEY = c.BANDEIRA_KEY
    /\ v.PRODUTO_KEY = c.PRODUTO_KEY

Rates(c) == [Taxa |-> c.Taxa, Taxa_Antecipacao |-> c.Taxa_Antecipacao, Imposto |-> c.Imposto]
NoRates == [Taxa |-> NaN, Taxa_Antecipacao |-> NaN, Imposto |-> NaN]

\* left.merge(right, how="left", on=[MCC, BANDEIRA_KEY, PRODUTO_KEY]): every
\* left row once per right row with its key, once with empty rates if none
RECURSIVE merge_left(_, _)
merge_left(left, right) ==
    IF left = <<>> THEN <<>>
    ELSE LET v == Head(left)
             hits == SelectSeq(right, LAMBDA c : SameKey(v, c))
             rows == IF hits = <<>> THEN << NoRates @@ v >>
                     ELSE [j \in 1..Len(hits) |-> Rates(hits[j]) @@ v]
         IN  rows \o merge_left(Tail(left), right)

DefaultTaxa == R(0)
\* mutant: the tax rate defaulted like the two fee rates
DefaultImposto_Zero == R(0)
DefaultImposto == Rat(115, 1000)

total_ant == Rat(189, 10000)
intrepay_ant == Rat(147, 10000)
prop_intrepay == RDiv(intrepay_ant, total_ant)
prop_vegas == RSub(R(1), prop_intrepay)

Custo_Entrepay_MDR(valor, taxa) == RMul(valor, taxa)
Receita_Vegas_Ant(tarifa_ant) == RMul(tarifa_ant, prop_vegas)
Vegas_Bruto(mdr, custo_mdr, receita_ant) == RAdd(RSub(mdr, custo_mdr), receita_ant)
Imposto_sobre_VegasBruto(vegas_bruto, imposto) == RMul(vegas_bruto, imposto)
\* mutant: the net margin clamped at 0
MDR_Liquido_Vegas_Clamped(vegas_bruto, imposto_r) ==
    LET net == RSub(vegas_bruto, imposto_r)
    IN  IF RGt(R(0), net) THEN R(0) ELSE net

MDR_Liquido_Vegas(vegas_bruto, imposto_r) == RSub(vegas_bruto, imposto_r)

\* the defaults and the derived columns of one joined row
calc_cartao(r) ==
    LET taxa == fillna(r.Taxa, DefaultTaxa)
        taxa_ant == fillna(r.Taxa_Antecipacao, DefaultTaxa)
        imposto == fillna(r.Imposto, DefaultImposto)
        tarifa_ant == fillna(r.Tarifa_Antecipacao, R(0))
        valor == fillna(to_numeric(r.Valor), R(0))
        mdr == fillna(to_numeric(r.MDR), R(0))
        custo == Custo_Entrepay_MDR(valor, taxa)
        receita == Receita_Vegas_Ant(tarifa_ant)
        bruto == Vegas_Bruto(mdr, custo, receita)
        imp == Imposto_sobre_VegasBruto(bruto, imposto)
    IN  [Taxa |-> taxa,
         Taxa_Antecipacao |-> taxa_ant,
         Imposto |-> imposto,
         Tarifa_Ant |-> tarifa_ant,
         Valor |-> valor,
         MDR |-> mdr,
         Custo_Entrepay_MDR |-> custo,
         Receita_Vegas_Ant |-> receita,
         Vegas_Bruto |-> bruto,
         Imposto_sobre_VegasBruto |-> imp,
         MDR_Liquido_Vegas |-> MDR_Liquido_Vegas(bruto, imp),
         Mes |-> ensure_period_str(r.Data_Transacao)] @@ r

\* merged, from the two raw tables
Merged(vendas_raw, custos_raw) ==
    Column(merge_left(Column(vendas_raw.rows, vendas_keys), custos_slim(custos_raw.rows)),
           calc_cartao)

\* df[df["Mes"].isin(sel)] when sel is not empty
FilterMes(tbl, sel) ==
    IF sel = {} THEN tbl ELSE SelectSeq(tbl, LAMBDA r : r.Mes \in sel)

Meses(tbl) == { tbl[i].Mes : i \in 1..Len(tbl) }
GroupMes(tbl, m) == SelectSeq(tbl, LAMBDA r : r.Mes = m)

ColValor(r) == r.Valor
ColMDR(r) == r.MDR
ColLiquido(r) == r.MDR_Liquido_Vegas

\* mutant: the percentage without its guard
Pct_Unguarded(num, den) == RMul(RDiv(num, den), R(100))

\* np.where(den > 0, num / den * 100, 0): both branches are evaluated
Pct(num, den) == np_where(RGt(den, R(0)), RMul(RDiv(num, den), R(100)), R(0))

\* Python's order on the characters the keys are made of (code points)
CodeOrder ==
    <<"\t", " ", "-", ".", "/", "0","1","2","3","4","5","6","7","8","9">>
    \o UpperCase \o LowerCase
Ord(c) == CHOOSE i \in 1..Len(CodeOrder) : CodeOrder[i] = c

\* a < b on texts
RECURSIVE LexLess(_, _)
LexLess(a, b) ==
    IF b = <<>> THEN FALSE
    ELSE IF a = <<>> THEN TRUE
    ELSE IF Head(a) = Head(b) THEN LexLess(Tail(a), Tail(b))
    ELSE Ord(Head(a)) < Ord(Head(b))

\* the texts of a set in ascending order, as groupby(sort=True) lists its keys
RECURSIVE SortTexts(_)
SortTexts(S) ==
    IF S = {} THEN <<>>
    ELSE LET m == CHOOSE x \in S : \A y \in S : x = y \/ LexLess(x, y)
         IN  <<m>> \o SortTexts(S \ {m})

\* mutant: the rows without a valid date are left out of the summary
Resumo_cart_DropNaT(filt) ==
    IF filt = <<>> THEN <<>>
    ELSE LET keys == SortTexts(Meses(filt) \ {T_NaT})
         IN  [k \in 1..Len(keys) |->
                 LET g == GroupMes(filt, keys[k])
                     bruto == RSum(Column(g, ColValor))
                     liq == RSum(Column(g, ColLiquido))
                 IN  [Mes |-> keys[k],
                      Vendas_Brutas |-> bruto,
                      MDR |-> RSum(Column(g, ColMDR)),
                      MDR_Liquido_Vegas |-> liq,
                      MDR_Liquido_pct |-> np_where(RGt(bruto, R(0)),
                                                   RMul(RDiv(liq, bruto), R(100)), R(0))]]

\* filt_cart.groupby("Mes", as_index=False).agg(sums) and the percentage column
Resumo_cart(filt) ==
    IF filt = <<>> THEN <<>>
    ELSE LET keys == SortTexts(Meses(filt))
         IN  [k \in 1..Len(keys) |->
                 LET g == GroupMes(filt, keys[k])
                     bruto == RSum(Column(g, ColValor))
                     liq == RSum(Column(g, ColLiquido))
                 IN  [Mes |-> keys[k],
                      Vendas_Brutas |-> bruto,
                      MDR |-> RSum(Column(g, ColMDR)),
                      MDR_Liquido_Vegas |-> liq,
                      MDR_Liquido_pct |-> Pct(liq, bruto)]]

(***************************************************************************)
(* Preparação - PIX. A pix row has the cells CNPJ, MCC, Valor,             *)
(* Data_Transacao.                                                         *)
(***************************************************************************)
mdr_pix == Rat(24, 10000)
custo_fxo == Rat(25, 100)

ColImposto(r) == r.Imposto

\* mutant: the PIX tax rate fixed at its default
aliq_imp_Fixed(mrg) == Rat(115, 1000)

\* merged["Imposto"].median() if not merged["Imposto"].empty else 0.115
aliq_imp(mrg) == IF mrg # <<>> THEN median(Column(mrg, ColImposto)) ELSE Rat(115, 1000)

Receita_Vegas(valor) == RMul(valor, mdr_pix)
Imposto_pix(receita, aliq) == RMul(receita, aliq)
Custo_Fixo(qtde) == RMul(qtde, custo_fxo)
MDR_Liquido_pix(receita, imposto_r, custo) == RSub(RSub(receita, imposto_r), custo)

calc_pix(p, aliq) ==
    LET valor == fillna(to_numeric(p.Valor), R(0))
        qtde == R(1)
        receita == Receita_Vegas(valor)
        imp == Imposto_pix(receita, aliq)
        custo == Custo_Fixo(qtde)
    IN  [Valor |-> valor,
         Mes |-> ensure_period_str(p.Data_Transacao),
         Qtde |-> qtde,
         Receita_Vegas |-> receita,
         Imposto_R |-> imp,
         Custo_Fixo |-> custo,
         MDR_Liquido_Vegas |-> MDR_Liquido_pix(receita, imp, custo)] @@ p

\* pix: None unless a non-empty PIX table is loaded
Pix(pix_raw, mrg) ==
    IF pix_raw # None /\ Len(pix_raw.rows) > 0
    THEN DF([i \in 1..Len(pix_raw.rows) |-> calc_pix(pix_raw.rows[i], aliq_imp(mrg))])
    ELSE None

Filt_pix(px, sel) == IF px # None THEN DF(FilterMes(px.rows, sel)) ELSE None

(***************************************************************************)
(* Visão Geral                                                             *)
(***************************************************************************)
use_cart(meio) == IF meio # {} THEN "Cartao" \in meio ELSE TRUE
use_pix(fpix, meio) == fpix # None /\ (IF meio # {} THEN "PIX" \in meio ELSE TRUE)

Total_vendas(fcart, fpix, meio) ==
    RAdd(IF use_cart(meio) THEN RSum(Column(fcart, ColValor)) ELSE R(0),
         IF use_pix(fpix, meio) THEN RSum(Column(fpix.rows, ColValor)) ELSE R(0))

Total_mdr_liq(fcart, fpix, meio) ==
    RAdd(IF use_cart(meio) THEN RSum(Column(fcart, ColLiquido)) ELSE R(0),
         IF use_pix(fpix, meio) THEN RSum(Column(fpix.rows, ColLiquido)) ELSE R(0))

\* (total_mdr_liq / total_vendas * 100) if total_vendas > 0 else 0.0
Mdr_liq_pct(fcart, fpix, meio) ==
    LET tv == Total_vendas(fcart, fpix, meio)
    IN  IF RGt(tv, R(0)) THEN RMul(RDiv(Total_mdr_liq(fcart, fpix, meio), tv), R(100))
        ELSE R(0)

(***************************************************************************)
(* Comércios Novos. A comercios row has the cells CNPJ,                    *)
(* Previsao_Mensal, Data_Fechamento (the layout without Mes_Referencia).   *)
(***************************************************************************)
DigitChars == {"0","1","2","3","4","5","6","7","8","9"}

\* .astype(str).str.replace(r"\D", "", regex=True)
only_digits(x) == SelectSeq(str(x), LAMBDA c : c \in DigitChars)

CardKeyed(r) == [Mes |-> r.Mes, CNPJ |-> r.CNPJ_Estabelecimento, Valor |-> r.Valor]
PixKeyed(r) == [Mes |-> r.Mes, CNPJ |-> r.CNPJ, Valor |-> r.Valor]

KeyLess(a, b) ==
    \/ LexLess(a.Mes, b.Mes)
    \/ a.Mes = b.Mes /\ LexLess(str(a.CNPJ), str(b.CNPJ))

RECURSIVE SortKeys(_)
SortKeys(S) ==
    IF S = {} THEN <<>>
    ELSE LET m == CHOOSE x \in S : \A y \in S : x = y \/ KeyLess(x, y)
         IN  <<m>> \o SortKeys(S \ {m})

\* the (Mes, CNPJ) groups of a table; groupby drops the rows whose CNPJ is NaN
GroupKeys(tbl) ==
    { [Mes |-> tbl[i].Mes, CNPJ |-> tbl[i].CNPJ] : i \in { j \in 1..Len(tbl) : ~isna(tbl[j].CNPJ) } }

\* tbl.groupby(["Mes", CNPJ])["Valor"].sum() at one key; 0 if the key is absent
GroupValor(tbl, k) ==
    RSum(Column(SelectSeq(tbl, LAMBDA r : r.Mes = k.Mes /\ r.CNPJ = k.CNPJ), ColValor))

\* df_real: the outer merge of card_real and pix_real on (Mes, CNPJ) as the
\* tables spell it, Realizado_R$ added, and only then CNPJ reduced to digits
Df_real(fcart, fpix) ==
    LET card == Column(fcart, CardKeyed)
        px == IF fpix # None THEN Column(fpix.rows, PixKeyed) ELSE <<>>
        keys == SortKeys(GroupKeys(card) \cup GroupKeys(px))
    IN  [k \in 1..Len(keys) |->
            [Mes |-> keys[k].Mes,
             CNPJ |-> only_digits(keys[k].CNPJ),
             Realizado |-> RAdd(GroupValor(card, keys[k]), GroupValor(px, keys[k]))]]

\* com.merge(df_real, how="left", on=["Mes", "CNPJ"]) and fillna(0.0)
RECURSIVE merge_real(_, _)
merge_real(left, right) ==
    IF left = <<>> THEN <<>>
    ELSE LET c == Head(left)
             hits == SelectSeq(right, LAMBDA d : d.Mes = c.Mes /\ d.CNPJ = c.CNPJ)
             rows == IF hits = <<>> THEN << [Realizado |-> R(0)] @@ c >>
                     ELSE [j \in 1..Len(hits) |-> [Realizado |-> hits[j].Realizado] @@ c]
         IN  rows \o merge_real(Tail(left), right)

com_keys(c) ==
    [Mes |-> ensure_period_str(c.Data_Fechamento),
     Previsao_Mensal |-> fillna(to_numeric(c.Previsao_Mensal), R(0)),
     CNPJ |-> only_digits(c.CNPJ)] @@ c

Atingimento(c) == [Atingimento_pct |-> Pct(c.Realizado, c.Previsao_Mensal)] @@ c

\* com: None unless a non-empty Comércios Novos table is loaded
Com(comercios_raw, fcart, fpix, sel) ==
    IF comercios_raw # None /\ Len(comercios_raw.rows) > 0
    THEN DF(Column(FilterMes(merge_real(Column(comercios_raw.rows, com_keys),
                                        Df_real(fcart, fpix)), sel),
                   Atingimento))
    ELSE None

(***************************************************************************)
(* Exportação                                                              *)
(***************************************************************************)
\* the sheets of the export workbook: the filtered cards always, a summary or
\* audit that is not empty, the PIX sheets for a filt_pix that is not empty,
\* the new-merchant sheet for a loaded comercios table and a com not empty
Sheets(fcart, resumo, fpix, comercios_raw, cm) ==
    {"Cartoes_Filtrados"}
    \cup (IF resumo # <<>> THEN {"Resumo_Cartoes"} ELSE {})
    \cup (IF fcart # <<>> THEN {"Auditoria_Cartoes"} ELSE {})
    \cup (IF fpix # None /\ fpix.rows # <<>>
          THEN {"PIX_Filtrado", "Resumo_PIX"} ELSE {})
    \cup (IF comercios_raw # None /\ Len(comercios_raw.rows) > 0 /\ cm.rows # <<>>
          THEN {"Comercios_Novos"} ELSE {})

(***************************************************************************)
(* The key normalizers applied to one cell (specification SpecNorm)        *)
(***************************************************************************)
NoSession ==
    /\ page = "Upload"
    /\ data = [vendas |-> None, custos |-> None, pix |-> None, comercios |-> None]
    /\ uploaded = LoadedFrom(data)

\* nothing of the dashboard page is rendered
NoDashboard ==
    /\ run = "upload"
    /\ mes_sel = {}
    /\ meio_sel = {}
    /\ merged = <<>>
    /\ filt_cart = <<>>
    /\ resumo_cart = <<>>
    /\ filt_pix = None
    /\ com = None
    /\ mdr_liq_pct = None
    /\ sheets = {}

NoNorm ==
    /\ raw = NaN
    /\ bkey = Pending
    /\ bkey2 = Pending
    /\ pkey = Pending

InitNorm ==
    /\ NoSession
    /\ NoDashboard
    /\ raw \in RawCells
    /\ bkey = Pending
    /\ bkey2 = Pending
    /\ pkey = Pending

\* vendas["Bandeira"].apply(norm_bandeira), one cell
NormBandeira ==
    /\ bkey = Pending
    /\ bkey' = TextCell(norm_bandeira(raw))
    /\ UNCHANGED <<raw, bkey2, pkey, sessionVars, dashVars>>

\* norm_bandeira applied to its own result
NormBandeiraAgain ==
    /\ bkey # Pending
    /\ bkey2 = Pending
    /\ bkey2' = TextCell(norm_bandeira(bkey))
    /\ UNCHANGED <<raw, bkey, pkey, sessionVars, dashVars>>

\* vendas["Produto"].apply(norm_prod), one cell
NormProd ==
    /\ pkey = Pending
    /\ pkey' = TextCell(norm_prod(raw))
    /\ UNCHANGED <<raw, bkey, bkey2, sessionVars, dashVars>>

NextNorm == NormBandeira \/ NormBandeiraAgain \/ NormProd

SpecNorm == InitNorm /\ [][NextNorm]_vars

(***************************************************************************)
(* The session: script runs of the two pages                               *)
(***************************************************************************)
\* rd(f): pd.read_excel(f) if f is not None else None; None on an exception
rd(f) ==
    IF f = NoFile THEN None
    ELSE IF f = Unreadable THEN None
    ELSE f

\* a run that ends before the dashboard's calculations renders none of them
NothingComputed ==
    /\ mes_sel' = {}
    /\ meio_sel' = {}
    /\ merged' = <<>>
    /\ filt_cart' = <<>>
    /\ resumo_cart' = <<>>
    /\ filt_pix' = None
    /\ com' = None
    /\ mdr_liq_pct' = None
    /\ sheets' = {}

\* a run of the Upload page without the button
UploadPage ==
    /\ page' = "Upload"
    /\ run' = "upload"
    /\ NothingComputed
    /\ UNCHANGED <<data, uploaded, normVars>>

\* mutant: a slot is assigned only when its uploader holds a file
CarregarDados_Keep(vendas_file, custos_file, pix_file, com_file) ==
    /\ page = "Upload"
    /\ data' = [vendas |-> IF vendas_file = NoFile THEN data.vendas ELSE rd(vendas_file),
                custos |-> IF custos_file = NoFile THEN data.custos ELSE rd(custos_file),
                pix |-> IF pix_file = NoFile THEN data.pix ELSE rd(pix_file),
                comercios |-> IF com_file = NoFile THEN data.comercios ELSE rd(com_file)]
    /\ uploaded' = [vendas |-> vendas_file,
                    custos |-> custos_file,
                    pix |-> pix_file,
                    comercios |-> com_file]
    /\ run' = "loaded"
    /\ NothingComputed
    /\ UNCHANGED <<page, normVars>>

\* the "Carregar dados" button on the Upload page
CarregarDados(vendas_file, custos_file, pix_file, com_file) ==
    /\ page = "Upload"
    /\ data' = [vendas |-> rd(vendas_file),
                custos |-> rd(custos_file),
                pix |-> rd(pix_file),
                comercios |-> rd(com_file)]
    /\ uploaded' = [vendas |-> vendas_file,
                    custos |-> custos_file,
                    pix |-> pix_file,
                    comercios |-> com_file]
    /\ run' = "loaded"
    /\ NothingComputed
    /\ UNCHANGED <<page, normVars>>

\* a run of the Dashboard page that st.stop() ends at the gate
DashboardStop ==
    /\ data.vendas = None \/ data.custos = None
    /\ page' = "Dashboard"
    /\ run' = "stopped"
    /\ NothingComputed
    /\ UNCHANGED <<data, uploaded, normVars>>

MaxSel == 1
MesChoices(mrg) == { S \in SUBSET Meses(mrg) : Cardinality(S) <= MaxSel }
MeioChoices == SUBSET {"Cartao", "PIX"}

\* a full run of the Dashboard page with the selections sel_mes ("Mês") and
\* sel_meio ("Meio"); the other multiselects are left empty
DashboardRun(sel_mes, sel_meio) ==
    /\ page' = "Dashboard"
    /\ run' = "dashboard"
    /\ mes_sel' = sel_mes
    /\ meio_sel' = sel_meio
    /\ merged' = Merged(data.vendas, data.custos)
    /\ filt_cart' = FilterMes(merged', sel_mes)
    /\ resumo_cart' = Resumo_cart(filt_cart')
    /\ filt_pix' = Filt_pix(Pix(data.pix, merged'), sel_mes)
    /\ com' = Com(data.comercios, filt_cart', filt_pix', sel_mes)
    /\ mdr_liq_pct' = Mdr_liq_pct(filt_cart', filt_pix', sel_meio)
    /\ sheets' = Sheets(filt_cart', resumo_cart', filt_pix', data.comercios, com')
    /\ UNCHANGED <<data, uploaded, normVars>>

\* the Dashboard page past the gate; "Mês" offers the months of merged
Dashboard ==
    /\ data.vendas # None /\ data.custos # None
    /\ \E sel_mes \in MesChoices(Merged(data.vendas, data.custos)), sel_meio \in MeioChoices :
          DashboardRun(sel_mes, sel_meio)

NextDash == DashboardStop \/ Dashboard

\* the first run of the Dashboard page after the data was loaded
FirstDashboardStop == run = "upload" /\ DashboardStop
FirstDashboard == run = "upload" /\ Dashboard

NextCalc == FirstDashboardStop \/ FirstDashboard

(***************************************************************************)
(* Input tables                                                            *)
(***************************************************************************)
T_5411 == <<"5","4","1","1">>
T_CNPJ_dots == <<"1","2",".","3","/","4">>
T_CNPJ_bare == <<"1","2","3","4">>
T_CNPJ_other == <<"9","9">>

VendasRow(band, prod, valor, date, mdr, ant, cnpj) ==
    [MCC |-> TextCell(T_5411), Bandeira |-> band, Produto |-> prod, Valor |-> valor,
     Data_Transacao |-> date, MDR |-> mdr, Tarifa_Antecipacao |-> ant,
     CNPJ_Estabelecimento |-> cnpj]

V_Master == VendasRow(TextCell(T_MASTERCARD), TextCell(T_CREDITO), NumCell(R(1000)),
                      DateCell(2024, 3, 15), NumCell(R(20)), NumCell(R(0)),
                      TextCell(T_CNPJ_dots))
V_Visa == VendasRow(TextCell(<<"v","i","s","a">>), TextCell(<<"d","e","b","i","t","o">>),
                    NumCell(R(500)), DateCell(2024, 3, 20), NumCell(R(5)), NumCell(R(9)),
                    TextCell(T_CNPJ_bare))
V_Blank == VendasRow(TextCell(<<"E","L","O">>), NaN, NaN,
                     TextCell(<<"s","/","d">>), NaN, NaN, NaN)
V_Loss == VendasRow(TextCell(T_MAESTRO), TextCell(T_CREDITO), NumCell(R(1000)),
                    DateCell(2024, 4, 2), NumCell(R(5)), NumCell(R(18)),
                    TextCell(T_CNPJ_other))

CustosRow(band, prod, taxa, taxa_ant, imposto) ==
    [MCC |-> TextCell(<<" ">> \o T_5411), BANDEIRA |-> band, PRODUTO |-> prod,
     Taxa |-> taxa, Taxa_Antecipacao |-> taxa_ant, Imposto |-> imposto]

C_Master == CustosRow(TextCell(T_MASTER), TextCell(T_CREDITO),
                      NumCell(Rat(1, 100)), NumCell(R(0)), NumCell(Rat(1, 10)))
C_Master2 == CustosRow(TextCell(<<"M","a","s","t","e","r"," ">>), TextCell(T_CREDITO),
                       NumCell(Rat(2, 100)), NumCell(R(0)), NumCell(Rat(115, 1000)))
C_Visa == CustosRow(TextCell(T_VISA), TextCell(T_DEBITO), NaN, NaN, NumCell(Rat(1, 10)))

PixRow(cnpj, valor, date) ==
    [CNPJ |-> cnpj, MCC |-> TextCell(T_5411), Valor |-> valor, Data_Transacao |-> date]

P_500 == PixRow(TextCell(T_CNPJ_bare), NumCell(R(500)), DateCell(2024, 3, 10))
P_Blank == PixRow(NaN, NaN, NaN)

ComRow(cnpj, previsao, date) ==
    [CNPJ |-> cnpj, Previsao_Mensal |-> previsao, Data_Fechamento |-> date]

M_Mar == ComRow(TextCell(T_CNPJ_dots), NumCell(R(1000)), DateCell(2024, 3, 1))
M_Zero == ComRow(TextCell(T_CNPJ_other), NaN, DateCell(2024, 4, 1))

MaxVendas == 2
MaxCustos == 2
MaxPix == 1
MaxCom == 1

\* the tables of at most k rows, each row from Rows
RECURSIVE Tables(_, _)
Tables(Rows, k) ==
    IF k = 0 THEN { <<>> }
    ELSE Tables(Rows, k - 1) \cup { Append(t, r) : t \in Tables(Rows, k - 1), r \in Rows }

Frames(Rows, k) == { DF(t) : t \in Tables(Rows, k) }

(***************************************************************************)
(* Specifications                                                          *)
(*   Spec     - the session from its start: loads and page runs            *)
(*   SpecCard - the dashboard page on any loaded card data (no PIX, no     *)
(*              new merchants)                                             *)
(*   SpecFull - the dashboard page on card, PIX and new-merchant data      *)
(*   SpecNorm - the key normalizers on one cell                            *)
(***************************************************************************)
Init == NoSession /\ NoDashboard /\ NoNorm

VendasFiles == {NoFile, Unreadable, DF(<<V_Master>>), DF(<<V_Master, V_Visa>>)}
CustosFiles == {NoFile, Unreadable, DF(<<C_Master>>)}
PixFiles == {NoFile, Unreadable, DF(<<P_500>>)}
ComFiles == {NoFile, Unreadable, DF(<<M_Mar>>)}

Next ==
    \/ UploadPage
    \/ \E v \in VendasFiles, c \in CustosFiles, p \in PixFiles, m \in ComFiles :
          CarregarDados(v, c, p, m)
    \/ NextDash

Spec == Init /\ [][Next]_vars

InitCard ==
    /\ page = "Upload"
    /\ data \in [vendas : {None} \cup Frames({V_Master, V_Visa, V_Blank, V_Loss}, MaxVendas),
                 custos : {None} \cup Frames({C_Master, C_Master2, C_Visa}, MaxCustos),
                 pix : {None},
                 comercios : {None}]
    /\ uploaded = LoadedFrom(data)
    /\ NoDashboard
    /\ NoNorm

SpecCard == InitCard /\ [][NextCalc]_vars

InitFull ==
    /\ page = "Upload"
    /\ data \in [vendas : {None} \cup Frames({V_Master, V_Blank}, MaxVendas),
                 custos : Frames({C_Master}, 1),
                 pix : {None} \cup Frames({P_500, P_Blank}, MaxPix),
                 comercios : {None} \cup Frames({M_Mar, M_Zero}, MaxCom)]
    /\ uploaded = LoadedFrom(data)
    /\ NoDashboard
    /\ NoNorm

SpecFull == InitFull /\ [][NextCalc]_vars

(***************************************************************************)
(* Claims on the key normalizers                                           *)
(***************************************************************************)

\* C6: brand normalization is idempotent: norm_bandeira(norm_bandeira(x)) =
\* norm_bandeira(x) for every input text x.
C6_BrandIdempotent == bkey2 # Pending => bkey2 = bkey

\* C7: product normalization returns the empty key for a null input and for a
\* blank (empty or whitespace-only) input; for every other input DEBITO when the
\* trimmed, uppercased text starts with D and CREDITO otherwise.
C7_ProdBlankIsEmpty ==
    pkey # Pending =>
        pkey.s = IF isna(raw) \/ (\A i \in 1..Len(raw.s) : raw.s[i] \in Whitespace)
                 THEN <<>>
                 ELSE IF upper(strip(raw.s))[1] = "D" THEN T_DEBITO ELSE T_CREDITO

(***************************************************************************)
(* Claims on the card calculation (SpecCard)                               *)
(***************************************************************************)
Rows(tbl) == { tbl[i] : i \in 1..Len(tbl) }
T_2024_03 == <<"2","0","2","4","-","0","3">>

\* the sum of the numbers of col at the indices in S
RECURSIVE SumAt(_, _)
SumAt(col, S) ==
    IF S = {} THEN R(0)
    ELSE LET i == CHOOSE j \in S : TRUE
         IN  RAdd(col[i], SumAt(col, S \ {i}))

SumIdx(tbl, S, f(_)) == SumAt(Column(tbl, f), S)

IsSpecExample(r) ==
    /\ r.Valor = R(1000) /\ r.MDR = R(20) /\ r.Tarifa_Ant = R(0)
    /\ r.Taxa = Rat(1, 100) /\ r.Imposto = Rat(1, 10)

\* C1 as stated: every joined row has processor_cost_mdr = gross x fee_rate,
\* reseller_advance_rev = advance_fee x (1 - 1.47/1.89), gross_reseller_revenue =
\* mdr_fee + reseller_advance_rev, tax_owed = gross_reseller_revenue x tax_rate and
\* net_margin = gross_reseller_revenue - tax_owed - processor_cost_mdr -
\* advance_fee x 1.47/1.89 (so the example row gives 20, 2 and 8).
C1_SpecFormula ==
    run = "dashboard" =>
        \A r \in Rows(merged) :
            /\ r.Custo_Entrepay_MDR = RMul(r.Valor, r.Taxa)
            /\ r.Receita_Vegas_Ant = RMul(r.Tarifa_Ant, RSub(R(1), Rat(147, 189)))
            /\ r.Vegas_Bruto = RAdd(r.MDR, r.Receita_Vegas_Ant)
            /\ r.Imposto_sobre_VegasBruto = RMul(r.Vegas_Bruto, r.Imposto)
            /\ r.MDR_Liquido_Vegas =
                   RSub(RSub(RSub(r.Vegas_Bruto, r.Imposto_sobre_VegasBruto),
                             r.Custo_Entrepay_MDR),
                        RMul(r.Tarifa_Ant, Rat(147, 189)))
            /\ IsSpecExample(r) =>
                   /\ r.Vegas_Bruto = R(20)
                   /\ r.Imposto_sobre_VegasBruto = R(2)
                   /\ r.MDR_Liquido_Vegas = R(8)

\* C1 amended: every joined row has processor_cost_mdr = gross x fee_rate,
\* reseller_advance_rev = advance_fee x (1 - 1.47/1.89), gross_reseller_revenue =
\* mdr_fee - processor_cost_mdr + reseller_advance_rev, tax_owed =
\* gross_reseller_revenue x tax_rate and net_margin = gross_reseller_revenue -
\* tax_owed, never clamped at 0 (the example row gives 10, 1 and 9).
C1_CodeFormula ==
    run = "dashboard" =>
        \A r \in Rows(merged) :
            /\ r.Custo_Entrepay_MDR = RMul(r.Valor, r.Taxa)
            /\ r.Receita_Vegas_Ant = RMul(r.Tarifa_Ant, RSub(R(1), Rat(147, 189)))
            /\ r.Vegas_Bruto = RAdd(RSub(r.MDR, r.Custo_Entrepay_MDR), r.Receita_Vegas_Ant)
            /\ r.Imposto_sobre_VegasBruto = RMul(r.Vegas_Bruto, r.Imposto)
            /\ r.MDR_Liquido_Vegas = RSub(r.Vegas_Bruto, r.Imposto_sobre_VegasBruto)
            /\ IsSpecExample(r) =>
                   /\ r.Vegas_Bruto = R(10)
                   /\ r.Imposto_sobre_VegasBruto = R(1)
                   /\ r.MDR_Liquido_Vegas = R(9)

\* the example row is calculated, next to a row whose net margin is negative
C1_Witness ==
    /\ run = "dashboard"
    /\ \E r \in Rows(merged) : IsSpecExample(r)
    /\ \E r \in Rows(merged) : RGt(R(0), r.MDR_Liquido_Vegas)

\* C2: the join is row-preserving: the joined table has exactly as many rows
\* as the transaction table, for every cost table.
C2_JoinRowPreserving ==
    run = "dashboard" => Len(merged) = Len(data.vendas.rows)

\* the cost rows a joined row's key has in the cost table
CostRowsOf(r) ==
    { i \in 1..Len(data.custos.rows) :
        LET c == data.custos.rows[i]
        IN  /\ strip(str(c.MCC)) = r.MCC
            /\ strip(upper(str(c.BANDEIRA))) = r.BANDEIRA_KEY
            /\ strip(upper(str(c.PRODUTO))) = r.PRODUTO_KEY }

\* C3: a transaction whose key has no row in the cost table gets fee rate 0,
\* advance rate 0 and tax rate 0.115; with mdr_fee = 20 and advance_fee = 0 that
\* is processor_cost_mdr = 0, tax_owed = 2.30, net_margin = 17.70.
C3_UnmatchedDefaults ==
    run = "dashboard" =>
        \A r \in Rows(merged) :
            CostRowsOf(r) = {} =>
                /\ r.Taxa = R(0)
                /\ r.Taxa_Antecipacao = R(0)
                /\ r.Imposto = Rat(115, 1000)
                /\ (r.MDR = R(20) /\ r.Tarifa_Ant = R(0)) =>
                       /\ r.Custo_Entrepay_MDR = R(0)
                       /\ r.Imposto_sobre_VegasBruto = Rat(230, 100)
                       /\ r.MDR_Liquido_Vegas = Rat(1770, 100)

\* an unmatched transaction with mdr_fee = 20 and advance_fee = 0, while the cost
\* table is not empty
C3_Witness ==
    /\ run = "dashboard"
    /\ data.custos.rows # <<>>
    /\ \E r \in Rows(merged) : CostRowsOf(r) = {} /\ r.MDR = R(20) /\ r.Tarifa_Ant = R(0)

\* C4: after deduplication the cost lookup is keyed uniquely: of two cost rows
\* with the same (MCC, brand key, product key) only one is in the lookup.
C4_LookupKeyUnique ==
    run = "dashboard" =>
        LET slim == custos_slim(data.custos.rows)
        IN  \A i, j \in 1..Len(slim) : SameKey(slim[i], slim[j]) => i = j

\* C5: monthly aggregation partitions its rows by month key: one bucket per
\* month key of the rows (the sentinel NaT for every unparseable or missing
\* date), each with the sums of gross, fee and net margin over exactly the rows
\* of that key, so the buckets' sums add up to the totals; two March 2024 rows
\* with gross 1000 and 500 give one 2024-03 bucket with gross 1500.
C5_MonthlyPartition ==
    run = "dashboard" =>
        LET idx(m) == { i \in 1..Len(filt_cart) : filt_cart[i].Mes = m }
            all == 1..Len(filt_cart)
        IN  /\ \A r \in Rows(filt_cart) : r.Data_Transacao.t # "date" => r.Mes = T_NaT
            /\ \A r \in Rows(filt_cart) : r.Data_Transacao.t = "date" => r.Mes # T_NaT
            /\ { b.Mes : b \in Rows(resumo_cart) } = { r.Mes : r \in Rows(filt_cart) }
            /\ \A i, j \in 1..Len(resumo_cart) :
                   resumo_cart[i].Mes = resumo_cart[j].Mes => i = j
            /\ \A b \in Rows(resumo_cart) :
                   /\ b.Vendas_Brutas = SumIdx(filt_cart, idx(b.Mes), ColValor)
                   /\ b.MDR = SumIdx(filt_cart, idx(b.Mes), ColMDR)
                   /\ b.MDR_Liquido_Vegas = SumIdx(filt_cart, idx(b.Mes), ColLiquido)
            /\ SumIdx(resumo_cart, 1..Len(resumo_cart), LAMBDA b : b.Vendas_Brutas)
                   = SumIdx(filt_cart, all, ColValor)
            /\ ( /\ Len(filt_cart) = 2
                 /\ \A r \in Rows(filt_cart) : r.Mes = T_2024_03
                 /\ { r.Valor : r \in Rows(filt_cart) } = {R(1000), R(500)} )
               => /\ Len(resumo_cart) = 1
                  /\ resumo_cart[1].Mes = T_2024_03
                  /\ resumo_cart[1].Vendas_Brutas = R(1500)

\* the two March rows with gross 1000 and 500 are aggregated
C5_Witness ==
    /\ run = "dashboard"
    /\ Len(filt_cart) = 2
    /\ \E b \in Rows(resumo_cart) : b.Mes = T_2024_03 /\ b.Vendas_Brutas = R(1500)

(***************************************************************************)
(* Claims on percentages, PIX and new merchants (SpecFull)                 *)
(***************************************************************************)
PctOk(pct, num, den) ==
    /\ IsFinite(pct)
    /\ den = R(0) => pct = R(0)
    /\ RGt(den, R(0)) => RMul(pct, den) = RMul(num, R(100))

\* C8: every derived percentage is exactly 0 when its denominator is 0, with
\* no division error or NaN, and numerator / denominator x 100 when the
\* denominator is positive: the monthly net-margin percentage of a bucket, the
\* overall net-margin percentage, the attainment percentage of a merchant.
C8_PercentagesGuarded ==
    run = "dashboard" =>
        /\ \A b \in Rows(resumo_cart) :
               PctOk(b.MDR_Liquido_pct, b.MDR_Liquido_Vegas, b.Vendas_Brutas)
        /\ PctOk(mdr_liq_pct, Total_mdr_liq(filt_cart, filt_pix, meio_sel),
                 Total_vendas(filt_cart, filt_pix, meio_sel))
        /\ com # None =>
               \A c \in Rows(com.rows) :
                   PctOk(c.Atingimento_pct, c.Realizado, c.Previsao_Mensal)

\* a bucket with gross 0, total gross 0 and a merchant with forecast 0, at once
C8_Witness ==
    /\ run = "dashboard"
    /\ \E b \in Rows(resumo_cart) : b.Vendas_Brutas = R(0) /\ b.MDR_Liquido_pct = R(0)
    /\ Total_vendas(filt_cart, filt_pix, meio_sel) = R(0)
    /\ mdr_liq_pct = R(0)
    /\ com # None
    /\ \E c \in Rows(com.rows) : c.Previsao_Mensal = R(0) /\ c.Atingimento_pct = R(0)

PixFormula(p, tax_rate) ==
    /\ p.Receita_Vegas = RMul(p.Valor, Rat(24, 10000))
    /\ p.Imposto_R = RMul(p.Receita_Vegas, tax_rate)
    /\ p.Custo_Fixo = Rat(25, 100)
    /\ p.MDR_Liquido_Vegas = RSub(RSub(p.Receita_Vegas, p.Imposto_R), p.Custo_Fixo)

\* C9 as stated: every PIX row has revenue = gross x 0.0024, tax = revenue x
\* tax_rate, fixed cost 0.25 and net margin = revenue - tax - fixed cost, with
\* tax_rate the 11.5% default whatever card data is loaded, so gross 500 gives
\* 1.20, 0.138 and 0.812.
C9_PixFixedTaxRate ==
    (run = "dashboard" /\ filt_pix # None) =>
        \A p \in Rows(filt_pix.rows) :
            /\ PixFormula(p, Rat(115, 1000))
            /\ p.Valor = R(500) =>
                   /\ p.Receita_Vegas = Rat(120, 100)
                   /\ p.Imposto_R = Rat(138, 1000)
                   /\ p.MDR_Liquido_Vegas = Rat(812, 1000)

\* C9 amended: every PIX row has revenue = gross x 0.0024, tax = revenue x
\* tax_rate, fixed cost 0.25 and net margin = revenue - tax - fixed cost, where
\* tax_rate is not a parameter: it is the median of the tax rates of the joined
\* card rows of the session, and 11.5% only when there is no card row; gross 500
\* gives revenue 1.20 and, when that median is 11.5%, tax 0.138 and net margin
\* 0.812.
C9_PixMedianTaxRate ==
    (run = "dashboard" /\ filt_pix # None) =>
        LET rates == Column(merged, ColImposto)
            tax_rate == IF Len(merged) = 0 THEN Rat(115, 1000) ELSE median(rates)
        IN  \A p \in Rows(filt_pix.rows) :
                /\ PixFormula(p, tax_rate)
                /\ p.Valor = R(500) =>
                       /\ p.Receita_Vegas = Rat(120, 100)
                       /\ tax_rate = Rat(115, 1000) =>
                              /\ p.Imposto_R = Rat(138, 1000)
                              /\ p.MDR_Liquido_Vegas = Rat(812, 1000)

\* a PIX row of gross 500 taxed at the median 10.75% of the card rates 10% and
\* 11.5%
C9_Witness ==
    /\ run = "dashboard"
    /\ filt_pix # None
    /\ { r.Imposto : r \in Rows(merged) } = {Rat(1, 10), Rat(115, 1000)}
    /\ \E p \in Rows(filt_pix.rows) : p.Valor = R(500) /\ p.Imposto_R = Rat(129, 1000)

\* the forecast rows the "Mês" selection keeps
ForecastShown ==
    { i \in 1..Len(data.comercios.rows) :
        mes_sel = {} \/ ensure_period_str(data.comercios.rows[i].Data_Fechamento) \in mes_sel }

SameDigits(x, y) ==
    SelectSeq(str(x), LAMBDA c : c \in DigitChars) = SelectSeq(str(y), LAMBDA c : c \in DigitChars)

\* C10: the new-merchant table has exactly one row per forecast row, whose
\* realized amount is the sum of the gross amounts of the filtered card and PIX
\* transactions of the forecast row's month whose tax ID has the same digits as
\* the forecast row's, however each table punctuates it; 0 when there is none.
C10_RealizedPerForecast ==
    (run = "dashboard" /\ com # None) =>
        /\ Len(com.rows) = Cardinality(ForecastShown)
        /\ \A c \in Rows(com.rows) :
               LET cards == { i \in 1..Len(filt_cart) :
                                /\ filt_cart[i].Mes = c.Mes
                                /\ ~isna(filt_cart[i].CNPJ_Estabelecimento)
                                /\ SameDigits(filt_cart[i].CNPJ_Estabelecimento, TextCell(c.CNPJ)) }
                   px == IF filt_pix = None THEN <<>> ELSE filt_pix.rows
                   pixs == { i \in 1..Len(px) :
                                /\ px[i].Mes = c.Mes
                                /\ ~isna(px[i].CNPJ)
                                /\ SameDigits(px[i].CNPJ, TextCell(c.CNPJ)) }
               IN  c.Realizado = RAdd(SumIdx(filt_cart, cards, ColValor), SumIdx(px, pixs, ColValor))

(***************************************************************************)
(* The lookup keys of the cost join (specification SpecJoin)               *)
(***************************************************************************)
T_MAESTROCARD == T_MAESTRO \o <<"C","A","R","D">>
T_5812 == <<"5","8","1","2">>

\* one sale with the given MCC, brand and product cells
JoinSale(mcc, band, prod) ==
    [VendasRow(band, prod, NumCell(R(1000)), DateCell(2024, 3, 15), NumCell(R(20)),
               NumCell(R(0)), TextCell(T_CNPJ_bare)) EXCEPT !.MCC = mcc]

JoinSaleMCCs == {TextCell(T_5411), TextCell(T_5812 \o <<" ">>)}
JoinSaleBrands ==
    {TextCell(T_MASTERCARD), TextCell(T_MAESTRO), TextCell(T_MAESTROCARD),
     TextCell(<<" ","m","a","s","t","e","r">>), NaN}
JoinSaleProds == {TextCell(T_CREDITO), TextCell(<<"d","e","b","i","t","o">>)}
JoinSales ==
    { JoinSale(m, b, p) : m \in JoinSaleMCCs, b \in JoinSaleBrands, p \in JoinSaleProds }

\* one cost row; the three rates of a row are its own and none is a default
JoinCost(mcc, band, prod, taxa) ==
    [CustosRow(band, prod, NumCell(taxa), NumCell(RAdd(taxa, Rat(1, 1000))),
               NumCell(RAdd(taxa, Rat(1, 10)))) EXCEPT !.MCC = mcc]

K_Master == JoinCost(TextCell(<<" ">> \o T_5411), TextCell(T_MASTER), TextCell(T_CREDITO),
                     Rat(1, 100))
K_MasterLower == JoinCost(TextCell(T_5411), TextCell(<<"m","a","s","t","e","r"," ">>),
                          TextCell(<<"D","e","b","i","t","o">>), Rat(2, 100))
K_Mastercard == JoinCost(TextCell(T_5411), TextCell(T_MASTERCARD), TextCell(T_CREDITO),
                         Rat(3, 100))
K_Other == JoinCost(TextCell(T_5812), TextCell(T_MASTER), TextCell(T_CREDITO), Rat(4, 100))
K_NoBrand == JoinCost(TextCell(T_5411), NaN, TextCell(T_CREDITO), Rat(5, 100))
JoinCosts == {K_Master, K_MasterLower, K_Mastercard, K_Other, K_NoBrand}

InitJoin ==
    /\ page = "Upload"
    /\ data \in [vendas : {None} \cup { DF(<<v>>) : v \in JoinSales },
                 custos : Frames(JoinCosts, MaxCustos),
                 pix : {None},
                 comercios : {None}]
    /\ uploaded = LoadedFrom(data)
    /\ NoDashboard
    /\ NoNorm

SpecJoin == InitJoin /\ [][NextCalc]_vars

\* the key equality in the words of the claim
KeysAgree(v, c) ==
    /\ strip(str(v.MCC)) = strip(str(c.MCC))
    /\ norm_bandeira(v.Bandeira) = upper(strip(str(c.BANDEIRA)))
    /\ norm_prod(v.Produto) = upper(strip(str(c.PRODUTO)))

\* the joined row r is a row of the sale v
RowOfSale(r, v) ==
    /\ r.MCC = strip(str(v.MCC))
    /\ r.Bandeira = v.Bandeira
    /\ r.Produto = v.Produto

\* the joined row r carries the three rates of the cost row c
RatesOfCost(r, c) ==
    /\ r.Taxa = fillna(c.Taxa, R(0))
    /\ r.Taxa_Antecipacao = fillna(c.Taxa_Antecipacao, R(0))
    /\ r.Imposto = fillna(c.Imposto, Rat(115, 1000))

\* the sale v takes the rates of the cost row c
TakesRates(v, c) == \E r \in Rows(merged) : RowOfSale(r, v) /\ RatesOfCost(r, c)

\* a sale takes the rates of a cost row exactly when the three keys agree
KeyMatchExact ==
    run = "dashboard" =>
        \A v \in Rows(data.vendas.rows), c \in Rows(data.custos.rows) :
            TakesRates(v, c) <=> KeysAgree(v, c)

\* a sale with brand MASTERCARD or MAESTRO takes the rates of a cost row stored
\* as MASTER with its MCC and product
MasterSalesMatch ==
    run = "dashboard" =>
        \A v \in Rows(data.vendas.rows), c \in Rows(data.custos.rows) :
            /\ v.Bandeira \in {TextCell(T_MASTERCARD), TextCell(T_MAESTRO)}
            /\ c.BANDEIRA = TextCell(T_MASTER)
            /\ strip(str(v.MCC)) = strip(str(c.MCC))
            /\ norm_prod(v.Produto) = upper(strip(str(c.PRODUTO)))
            => TakesRates(v, c)

\* no sale takes the rates of a cost row stored as MASTERCARD
MastercardCostUnmatched ==
    run = "dashboard" =>
        \A v \in Rows(data.vendas.rows), c \in Rows(data.custos.rows) :
            c.BANDEIRA = TextCell(T_MASTERCARD) => ~TakesRates(v, c)

\* C11: a transaction takes the rates of a cost row exactly when the trimmed MCC
\* texts are equal, norm_bandeira(sale brand) = upper(trim(cost brand)) and
\* norm_prod(sale product) = upper(trim(cost product)); the substitutions are on
\* the sales side only, so a MASTERCARD or MAESTRO sale matches a cost row stored
\* as MASTER and a cost row stored as MASTERCARD is matched by no sale.
C11_KeyMatch == KeyMatchExact /\ MasterSalesMatch /\ MastercardCostUnmatched

\* a MASTERCARD or MAESTRO sale joined with a cost row stored as MASTER
C11_MasterMatched ==
    /\ run = "dashboard"
    /\ \E v \in Rows(data.vendas.rows), c \in Rows(data.custos.rows) :
          /\ v.Bandeira \in {TextCell(T_MASTERCARD), TextCell(T_MAESTRO)}
          /\ c.BANDEIRA = TextCell(T_MASTER)
          /\ TakesRates(v, c)

(***************************************************************************)
(* Claims on the session (specification Spec)                              *)
(***************************************************************************)
Slots == {"vendas", "custos", "pix", "comercios"}

\* every slot holds the table of the last load, None without a readable file
SlotsOfLastLoad ==
    \A k \in Slots :
        data[k] = IF uploaded[k] = NoFile \/ uploaded[k] = Unreadable
                  THEN None ELSE uploaded[k]

NothingShown ==
    /\ merged = <<>>
    /\ filt_cart = <<>>
    /\ resumo_cart = <<>>
    /\ filt_pix = None
    /\ com = None
    /\ mdr_liq_pct = None
    /\ sheets = {}

\* results are computed and exported only with both vendas and custos loaded;
\* without one of them the dashboard page stops with nothing computed
GateOnVendasAndCustos ==
    /\ run = "dashboard" => data.vendas # None /\ data.custos # None
    /\ run # "dashboard" => NothingShown
    /\ page = "Dashboard" =>
          run = (IF data.vendas = None \/ data.custos = None THEN "stopped" ELSE "dashboard")

\* a None pix or comercios slot leaves out its own section and sheets, and the
\* rest of the page is what it is with that slot loaded
OptionalSlots ==
    run = "dashboard" =>
        /\ merged = Merged(data.vendas, data.custos)
        /\ "Cartoes_Filtrados" \in sheets
        /\ data.pix = None =>
              /\ filt_pix = None
              /\ sheets \cap {"PIX_Filtrado", "Resumo_PIX"} = {}
        /\ data.comercios = None =>
              /\ com = None
              /\ "Comercios_Novos" \notin sheets
        /\ (data.pix # None /\ data.pix.rows # <<>>) => filt_pix # None
        /\ (data.comercios # None /\ data.comercios.rows # <<>>) => com # None

\* C12: after any sequence of loads and page switches each of the four slots
\* holds exactly the table supplied and read in the most recent load, and None
\* if that load supplied no file or the file failed to read; the dashboard page
\* computes and exports only when vendas and custos are both non-None and
\* otherwise stops before any calculation; a None pix or comercios slot only
\* omits its own section and export sheet.
C12_SessionSlots == SlotsOfLastLoad /\ GateOnVendasAndCustos /\ OptionalSlots

\* the dashboard computed from a load whose PIX file failed to read: no PIX
\* section or sheet, the new-merchant section and sheet are there
C12_Witness ==
    /\ run = "dashboard"
    /\ uploaded.pix = Unreadable
    /\ data.pix = None
    /\ filt_pix = None
    /\ com # None
    /\ "Comercios_Novos" \in sheets
    /\ "Cartoes_Filtrados" \in sheets

====
